---- MODULE Spec2Model ----
(***************************************************************************)
(* Model of the skin tone analysis tool (src/app.py, the minimal variant,   *)
(* and src/app2.py, the extended variant with the region overlay and the   *)
(* skin-mask visualization).                                               *)
(*                                                                         *)
(* Images are numpy arrays: a view (buf, top, left, h, w) onto a buffer of *)
(* the heap.  Basic slicing returns a view onto the same buffer, .copy()   *)
(* and every cv2 call that returns an array allocate a new buffer.  A      *)
(* pixel is <<b, g, r>>, 8 bits per channel.                               *)
(***************************************************************************)
EXTENDS Integers, Sequences, FiniteSets, TLC

VARIABLES
    pc,                   \* position in main / in the function call under check
    variant,              \* "app" (src/app.py) or "app2" (src/app2.py)
    heap,                 \* sequence of buffers; a buffer id is its index
    image,                \* main: image (after imdecode, then after resize)
    percentage,           \* keep percentage passed to get_central_region
    center_region,        \* main: center_region / analyze_skin_color: image
    region_coords,        \* main: region_coords (app2)
    region_visualization, \* main: region_visualization (app2)
    color,                \* main: color, <<>> is None
    skin_mask,            \* main: skin_mask (app2), NoneArray is None
    hex_color,            \* main: hex_color, six hex digits
    shown,                \* the UI elements displayed in this run of main
    loaded                \* history: the pixels of image when resizing was over

vars == <<pc, variant, heap, image, percentage, center_region, region_coords,
          region_visualization, color, skin_mask, hex_color, shown, loaded>>

----------------------------------------------------------------------------
(* Bounds of the model *)

\* uploads enumerated pixel by pixel have at most this many pixels
MaxArea == 5
\* long side of the oversized uploads: k * max_size + d, k <= MaxScale, d <= MaxExcess
MaxScale == 2
MaxExcess == 1
\* short side of the oversized uploads
MaxShort == 2
\* get_central_region alone: widths and heights up to this
RegionMaxDim == 11
\* analyze_skin_color alone: regions of at most this many pixels
SkinMaxArea == 3

----------------------------------------------------------------------------
(* Program constants *)

max_size == 800
default_percentage == 60
default_thickness == 2
hsv_shift == 12
hue_range == 180

lower_skin == <<0, 20, 70>>
upper_skin == <<20, 255, 255>>
default_color == <<0, 255, 0>>

Variants == {"app", "app2"}
Percentages == 0..100

----------------------------------------------------------------------------
(* Arithmetic of the host language and of the libraries *)

Max2(a, b) == IF a >= b THEN a ELSE b
Min2(a, b) == IF a <= b THEN a ELSE b

\* int(n / d) for d > 0: true division, then truncation toward zero
PyInt(n, d) == IF n >= 0 THEN n \div d ELSE -((-n) \div d)

\* cvRound(n / d) for n >= 0, d > 0: nearest integer, ties to even
cvRound(n, d) ==
    LET q == n \div d
        r == n % d
    IN  IF 2 * r < d THEN q
        ELSE IF 2 * r > d THEN q + 1
        ELSE IF q % 2 = 0 THEN q ELSE q + 1

\* a slice start:stop of an axis of length n (numpy's normalisation)
SliceIndex(i, n) ==
    LET j == IF i < 0 THEN i + n ELSE i
    IN  Max2(0, Min2(j, n))

----------------------------------------------------------------------------
(* numpy arrays over the heap *)

NoneArray == [buf |-> 0, top |-> 0, left |-> 0, h |-> 0, w |-> 0]
None == <<>>
NoCoords == [top |-> 0, bottom |-> 0, left |-> 0, right |-> 0]

Positions(h, w) == (0..(h - 1)) \X (0..(w - 1))

\* the pixel of array a at row y, column x
At(hp, a, y, x) == hp[a.buf].px[a.top + y][a.left + x]

\* the array as a value: shape and pixels, rows 0..h-1 of columns 0..w-1
Value(hp, a) ==
    [h |-> a.h, w |-> a.w,
     px |-> [y \in 0..(a.h - 1) |-> [x \in 0..(a.w - 1) |-> At(hp, a, y, x)]]]

\* a new buffer holding grid g
Alloc(hp, g) ==
    [heap |-> Append(hp, g),
     val |-> [buf |-> Len(hp) + 1, top |-> 0, left |-> 0, h |-> g.h, w |-> g.w]]

\* a[top:bottom, left:right] is a view: same buffer, no pixel copied
Slice(a, top, bottom, left, right) ==
    LET t == SliceIndex(top, a.h)
        b == SliceIndex(bottom, a.h)
        l == SliceIndex(left, a.w)
        r == SliceIndex(right, a.w)
    IN  [buf |-> a.buf, top |-> a.top + t, left |-> a.left + l,
         h |-> Max2(0, b - t), w |-> Max2(0, r - l)]

\* the did-not-copy variant of ndarray_copy: the result aliases the argument
ndarray_alias(hp, a) == [heap |-> hp, val |-> a]

\* a.copy(): a new buffer with the array's pixels
ndarray_copy(hp, a) == Alloc(hp, Value(hp, a))

\* a[sel] = v for a boolean array sel of the shape of a: every selected
\* position of the view is written through to the buffer behind it
Assign(hp, a, sel, v) ==
    [hp EXCEPT ![a.buf].px =
        [y \in DOMAIN @ |->
            [x \in DOMAIN @[y] |->
                IF /\ y >= a.top /\ y < a.top + a.h
                   /\ x >= a.left /\ x < a.left + a.w
                   /\ sel[y - a.top][x - a.left]
                THEN v ELSE @[y][x]]]]

----------------------------------------------------------------------------
(* cv2.cvtColor(image, cv2.COLOR_BGR2HSV) on 8-bit pixels: V = max, S and H *)
(* by the library's fixed-point division tables, H on the 0..179 scale      *)

sdiv_table(i) == IF i = 0 THEN 0 ELSE cvRound(255 * (2 ^ hsv_shift), i)
hdiv_table180(i) == IF i = 0 THEN 0 ELSE cvRound(hue_range * (2 ^ hsv_shift), 6 * i)

BGR2HSV(p) ==
    LET b == p[1]
        g == p[2]
        r == p[3]
        v == Max2(b, Max2(g, r))
        vmin == Min2(b, Min2(g, r))
        diff == v - vmin
        s == (diff * sdiv_table(v) + 2 ^ (hsv_shift - 1)) \div (2 ^ hsv_shift)
        h0 == IF v = r THEN g - b
              ELSE IF v = g THEN b - r + 2 * diff
              ELSE r - g + 4 * diff
        h1 == (h0 * hdiv_table180(diff) + 2 ^ (hsv_shift - 1)) \div (2 ^ hsv_shift)
        h == IF h1 < 0 THEN h1 + hue_range ELSE h1
    IN  <<Max2(0, Min2(255, h)), s, v>>

\* the exclusive-upper-bound variant of inRange
inRange_exclusive(x, lower, upper) ==
    IF \A k \in 1..3 : lower[k] <= x[k] /\ x[k] < upper[k] THEN 255 ELSE 0

\* cv2.inRange on one pixel: 255 when every channel is within [lower, upper]
inRange(x, lower, upper) ==
    IF \A k \in 1..3 : lower[k] <= x[k] /\ x[k] <= upper[k] THEN 255 ELSE 0

\* hsv = cv2.cvtColor(...); mask = cv2.inRange(hsv, lower_skin, upper_skin)
SkinMask(hp, a) ==
    [y \in 0..(a.h - 1) |->
        [x \in 0..(a.w - 1) |->
            inRange(BGR2HSV(At(hp, a, y, x)), lower_skin, upper_skin)]]

\* the sum of channel c over the pixels of image[mask > 0] with row-major
\* index lo..hi
RECURSIVE SumRange(_, _, _, _, _, _)
SumRange(hp, a, mask, c, lo, hi) ==
    IF lo > hi THEN 0
    ELSE IF lo = hi
    THEN LET y == lo \div a.w
             x == lo % a.w
         IN  IF mask[y][x] > 0 THEN At(hp, a, y, x)[c] ELSE 0
    ELSE LET mid == (lo + hi) \div 2
         IN  SumRange(hp, a, mask, c, lo, mid) + SumRange(hp, a, mask, c, mid + 1, hi)

\* the round-to-nearest variant of astype_int
astype_int_round(total, n) == (2 * total + n) \div (2 * n)

\* np.mean(...) of one channel, then .astype(int): the quotient truncated
astype_int(total, n) == PyInt(total, n)

\* average_color[::-1]
reversed_channels(c) == <<c[3], c[2], c[1]>>

\* the variant of non_skin that blacks out the skin pixels instead
non_skin_inverted(mask) == [y \in DOMAIN mask |-> [x \in DOMAIN mask[y] |-> mask[y][x] > 0]]

\* mask == 0
non_skin(mask) == [y \in DOMAIN mask |-> [x \in DOMAIN mask[y] |-> mask[y][x] = 0]]

\* analyze_skin_color(image) of variant v: the returned average color (None
\* is <<>>), the returned visualization (app2; None is NoneArray), the heap
\* after the call, and whether cv2.cvtColor raised on an empty array
analyze_skin_color(hp, a, v) ==
    LET mask == SkinMask(hp, a)
        skin_pixels == {p \in Positions(a.h, a.w) : mask[p[1]][p[2]] > 0}
        n == Cardinality(skin_pixels)
        mean(c) == astype_int(SumRange(hp, a, mask, c, 0, a.h * a.w - 1), n)
        average_color == reversed_channels(<<mean(1), mean(2), mean(3)>>)
        copied == ndarray_copy(hp, a)
    IN  IF a.h = 0 \/ a.w = 0
        THEN [heap |-> hp, color |-> None, vis |-> NoneArray, raised |-> TRUE]
        ELSE IF n = 0
        THEN [heap |-> hp, color |-> None, vis |-> NoneArray, raised |-> FALSE]
        ELSE IF v = "app"
        THEN [heap |-> hp, color |-> average_color, vis |-> NoneArray,
              raised |-> FALSE]
        ELSE [heap |-> Assign(copied.heap, copied.val, non_skin(mask), <<0, 0, 0>>),
              color |-> average_color, vis |-> copied.val, raised |-> FALSE]

----------------------------------------------------------------------------
(* get_central_region *)

\* the variant of margin that trims the whole complement from each side
margin_unhalved(dimension, keep) == PyInt(dimension * (100 - keep), 100)

\* the variant of margin that rounds to nearest instead of truncating
margin_rounded(dimension, keep) == cvRound(dimension * (100 - keep), 200)

\* int(dimension * (100 - percentage) / 200)
margin(dimension, keep) == PyInt(dimension * (100 - keep), 200)

\* the variant of crop that ends each slice at the negated margin
crop_negative_stop(a, margin_y, margin_x) ==
    Slice(a, margin_y, -margin_y, margin_x, -margin_x)

\* image[margin_y:height-margin_y, margin_x:width-margin_x]
crop(a, margin_y, margin_x) ==
    Slice(a, margin_y, a.h - margin_y, margin_x, a.w - margin_x)

\* get_central_region(image, percentage): center_region and, in app2,
\* region_coords (app returns the region only)
get_central_region(a, keep, v) ==
    LET height == a.h
        width == a.w
        margin_x == margin(width, keep)
        margin_y == margin(height, keep)
    IN  [center_region |-> crop(a, margin_y, margin_x),
         region_coords |->
            IF v = "app" THEN NoCoords
            ELSE [top |-> margin_y, bottom |-> height - margin_y,
                  left |-> margin_x, right |-> width - margin_x]]

----------------------------------------------------------------------------
(* draw_analysis_region (app2) *)

Abs(x) == IF x < 0 THEN -x ELSE x

\* the pixels (TRUE) cv2.rectangle(img, pt1, pt2, color, thickness) writes on an
\* h x w image for pt1 = (x0, y0), pt2 = (x1, y1), x0 <= x1, y0 <= y1 and an
\* even thickness: each edge is a filled band of thickness/2 pixels on both
\* sides of the edge, each corner a filled circle of radius thickness/2
\* (a plus shape for radius 1); what falls outside the image is clipped
rectangle_pixels(h, w, x0, y0, x1, y1, thickness) ==
    LET t == thickness \div 2
    IN  [y \in 0..(h - 1) |->
            [x \in 0..(w - 1) |->
                   \/ /\ x0 # x1
                      /\ x >= x0 /\ x <= x1
                      /\ (Abs(y - y0) <= t \/ Abs(y - y1) <= t)
                   \/ /\ y0 # y1
                      /\ y >= y0 /\ y <= y1
                      /\ (Abs(x - x0) <= t \/ Abs(x - x1) <= t)
                   \/ \E cx \in {x0, x1}, cy \in {y0, y1} :
                          Abs(x - cx) + Abs(y - cy) <= t]]

\* draw_analysis_region(image, coords, color, thickness)
draw_analysis_region(hp, a, coords, col, thickness) ==
    LET visualization == ndarray_copy(hp, a)
        v == visualization.val
    IN  [heap |-> Assign(visualization.heap, v,
                         rectangle_pixels(v.h, v.w, coords.left, coords.top,
                                          coords.right, coords.bottom, thickness),
                         col),
         val |-> v]

----------------------------------------------------------------------------
(* IEEE double arithmetic, as far as the size computation of cv2.resize      *)
(* needs it.  A positive double is held as [t, d, s]: its value is           *)
(*   (t * 2^52 + d[1] * 2^39 + d[2] * 2^26 + d[3] * 2^13 + d[4]) / 2^(s+52)  *)
(* with four 13-bit digits d; a double has a 53-bit significand, so t = 1    *)
(* for a quotient below 1 and, in a product, everything below the 53rd bit   *)
(* from the top is zero.  Sides and divisors are below 2^17.                 *)

Digit == 2 ^ 13

\* the number of binary digits of n, 1 <= n < 2^30
BitLength(n) == CHOOSE k \in 1..30 : 2 ^ (k - 1) <= n /\ n < 2 ^ k

\* the least s >= 1 with num * 2^s >= den, for 0 < num < den
RECURSIVE Normalise(_, _, _)
Normalise(num, den, s) ==
    IF num * (2 ^ s) >= den THEN s ELSE Normalise(num, den, s + 1)

\* num / den for integers 0 < num < den: the quotient rounded to the nearest
\* double, ties to even (Python's true division)
fl_div(num, den) ==
    LET s == Normalise(num, den, 1)
        r0 == num * (2 ^ s) - den
        q1 == (r0 * Digit) \div den
        r1 == (r0 * Digit) % den
        q2 == (r1 * Digit) \div den
        r2 == (r1 * Digit) % den
        q3 == (r2 * Digit) \div den
        r3 == (r2 * Digit) % den
        q4 == (r3 * Digit) \div den
        r4 == (r3 * Digit) % den
        up == 2 * r4 > den \/ (2 * r4 = den /\ q4 % 2 = 1)
        s4 == q4 + (IF up THEN 1 ELSE 0)
        s3 == q3 + (s4 \div Digit)
        s2 == q2 + (s3 \div Digit)
        s1 == q1 + (s2 \div Digit)
    IN  [t |-> 1 + (s1 \div Digit),
         d |-> <<s1 % Digit, s2 % Digit, s3 % Digit, s4 % Digit>>,
         s |-> s]

\* w * x for an integer w >= 1 and a double x: the product rounded to the
\* nearest double, ties to even
fl_mul(w, x) ==
    LET p4 == w * x.d[4]
        p3 == (w * x.d[3]) + (p4 \div Digit)
        p2 == (w * x.d[2]) + (p3 \div Digit)
        p1 == (w * x.d[1]) + (p2 \div Digit)
        t == (w * x.t) + (p1 \div Digit)
        low == ((p3 % Digit) * Digit) + (p4 % Digit)
        dropped == BitLength(t) - 1
        unit == 2 ^ dropped
        kept == low \div unit
        guard == IF dropped = 0 THEN 0 ELSE (low \div (unit \div 2)) % 2
        sticky == dropped >= 2 /\ low % (unit \div 2) # 0
        up == guard = 1 /\ (sticky \/ kept % 2 = 1)
        rounded == (IF up THEN kept + 1 ELSE kept) * unit
        e34 == rounded % (Digit * Digit)
        e2 == (p2 % Digit) + (rounded \div (Digit * Digit))
        e1 == (p1 % Digit) + (e2 \div Digit)
    IN  [t |-> t + (e1 \div Digit),
         d |-> <<e1 % Digit, e2 % Digit, e34 \div Digit, e34 % Digit>>,
         s |-> x.s]

\* cvRound(x) (saturate_cast<int>) of a double x: the nearest integer, ties to
\* even
cvRound_double(x) ==
    LET whole == x.t \div (2 ^ x.s)
        half == (x.t \div (2 ^ (x.s - 1))) % 2
        sticky == \/ x.t % (2 ^ (x.s - 1)) # 0
                  \/ \E k \in 1..4 : x.d[k] # 0
    IN  IF half = 0 THEN whole
        ELSE IF sticky THEN whole + 1
        ELSE IF whole % 2 = 0 THEN whole ELSE whole + 1

\* one side of the destination size of cv2.resize: the side times the double
\* ratio = num / den, the double product rounded by cvRound
scaled_side(side, num, den) == cvRound_double(fl_mul(side, fl_div(num, den)))

----------------------------------------------------------------------------
(* main: resizing and display *)

\* max(image.shape) for shape (height, width, 3)
max_shape(a) == Max2(a.h, Max2(a.w, 3))

\* the values channel k takes in the array
ChannelValues(hp, a, k) == {At(hp, a, p[1], p[2])[k] : p \in Positions(a.h, a.w)}

Least(S) == CHOOSE x \in S : \A y \in S : x <= y
Greatest(S) == CHOOSE x \in S : \A y \in S : x >= y

\* the pixels bilinear interpolation (the default, INTER_LINEAR) can make of
\* the array: every channel of a blend lies between the least and the
\* greatest value of that channel in the source, so an array of one colour
\* is resized to that colour
Blends(hp, a) ==
    {<<b, g, r>> :
        b \in Least(ChannelValues(hp, a, 1))..Greatest(ChannelValues(hp, a, 1)),
        g \in Least(ChannelValues(hp, a, 2))..Greatest(ChannelValues(hp, a, 2)),
        r \in Least(ChannelValues(hp, a, 3))..Greatest(ChannelValues(hp, a, 3))}

\* cv2.resize(image, None, fx=ratio, fy=ratio) with ratio = num / den < 1: the
\* outcomes of the call.  The destination size is (cvRound(w * ratio),
\* cvRound(h * ratio)), computed in doubles, and the call raises when that
\* size is empty; otherwise the result is a new array of blended pixels.
resize(hp, a, num, den) ==
    LET dw == scaled_side(a.w, num, den)
        dh == scaled_side(a.h, num, den)
        dst(f) == Alloc(hp, [h |-> dh, w |-> dw,
                             px |-> [y \in 0..(dh - 1) |-> [x \in 0..(dw - 1) |-> f[y][x]]]])
    IN  IF dw = 0 \/ dh = 0
        THEN {[heap |-> hp, val |-> NoneArray, raised |-> TRUE]}
        ELSE {[heap |-> dst(f).heap, val |-> dst(f).val, raised |-> FALSE] :
                  f \in [0..(dh - 1) -> [0..(dw - 1) -> Blends(hp, a)]]}

\* if max(image.shape) > max_size: ratio = ...; image = cv2.resize(...): the
\* outcomes of the statement; image.shape raises AttributeError when image is
\* None
resize_if_too_large(hp, a) ==
    IF a = NoneArray
    THEN {[heap |-> hp, val |-> NoneArray, raised |-> TRUE]}
    ELSE IF max_shape(a) > max_size
    THEN resize(hp, a, max_size, max_shape(a))
    ELSE {[heap |-> hp, val |-> a, raised |-> FALSE]}

HexDigits == <<"0", "1", "2", "3", "4", "5", "6", "7",
               "8", "9", "a", "b", "c", "d", "e", "f">>

\* '{:02x}'.format(c) for 0 <= c <= 255
hex2(c) == <<HexDigits[(c \div 16) + 1], HexDigits[(c % 16) + 1]>>

\* '#{:02x}{:02x}{:02x}'.format(color[0], color[1], color[2])
format_hex(c) == <<"#">> \o hex2(c[1]) \o hex2(c[2]) \o hex2(c[3])

ResultElements == {"success", "swatch", "rgb", "hex", "tips"}

\* the variant of result_elements whose failure message is not in an else
result_elements_no_else(c) ==
    (IF c # None THEN ResultElements ELSE {}) \cup {"error"}

\* if color is not None: success, swatch, RGB text, hex code, tips; else: error
result_elements(c) == IF c # None THEN ResultElements ELSE {"error"}

\* if skin_mask is not None: st.image(skin_mask)   (app2)
mask_elements(vis) == IF vis # NoneArray THEN {"skin_mask"} ELSE {}

----------------------------------------------------------------------------
(* Inputs *)

\* blue-green-red pixels: two skin tones (hue 12), pure blue (hue 120)
SkinA == <<120, 160, 220>>
SkinB == <<121, 163, 225>>
Blue == <<255, 0, 0>>
\* hue exactly 20 and hue 21
Hue20 == <<50, 150, 200>>
Hue21 == <<100, 170, 200>>
\* value 69, saturation 19, and a red whose hue wraps to 170
Value69 == <<40, 50, 69>>
Saturation19 == <<236, 245, 255>>
RedWrap == <<100, 50, 200>>

Palette == {SkinA, SkinB, Blue}
SkinPalette == {SkinA, SkinB, Blue, Hue20, Hue21, Value69, Saturation19, RedWrap}

Shapes(area) == {s \in (1..area) \X (1..area) : s[1] * s[2] <= area}

Grids(shapes, colours) ==
    UNION {{[h |-> s[1], w |-> s[2], px |-> f] :
                f \in [0..(s[1] - 1) -> [0..(s[2] - 1) -> colours]]} : s \in shapes}

Uniform(h, w, c) == [h |-> h, w |-> w, px |-> [y \in 0..(h - 1) |-> [x \in 0..(w - 1) |-> c]]]

LongSides == {k * max_size + d : k \in 1..MaxScale, d \in 0..MaxExcess}

\* tall and wide one-colour images with a side of max_size or more
OversizedUploads ==
    {Uniform(l, n, c) : l \in LongSides, n \in 1..MaxShort, c \in Palette}
    \cup {Uniform(n, l, c) : l \in LongSides, n \in 1..MaxShort, c \in Palette}

\* one-colour images of the smallest oversized shape at which the double
\* product side * ratio is not the exact quotient: 22 * 800 / 1408 is 12.5,
\* 22 * (800 / 1408) in doubles is just above it
TieUploads ==
    {Uniform(1408, 22, c) : c \in Palette} \cup {Uniform(22, 1408, c) : c \in Palette}

\* what cv2.imdecode can return for an upload
Uploads == Grids(Shapes(MaxArea), Palette) \cup OversizedUploads \cup TieUploads

\* images whose pixel at row y, column x is <<y, x, 0>>
Coordinates(h, w) == [h |-> h, w |-> w, px |-> [y \in 0..(h - 1) |-> [x \in 0..(w - 1) |-> <<y, x, 0>>]]]

EmptyGrid == [h |-> 0, w |-> 0, px |-> <<>>]

Whole(g) == [buf |-> 1, top |-> 0, left |-> 0, h |-> g.h, w |-> g.w]

----------------------------------------------------------------------------
(* main, one run of the script per upload *)

Init ==
    /\ pc = "idle"
    /\ variant \in Variants
    /\ heap = <<>>
    /\ image = NoneArray
    /\ percentage = default_percentage
    /\ center_region = NoneArray
    /\ region_coords = NoCoords
    /\ region_visualization = NoneArray
    /\ color = None
    /\ skin_mask = NoneArray
    /\ hex_color = None
    /\ shown = {}
    /\ loaded = EmptyGrid

\* uploaded_file is not None: image = cv2.imdecode(file_bytes, cv2.IMREAD_COLOR),
\* which is an array, or None when the bytes cannot be decoded, or raises
\* cv2.error when the upload has no bytes at all
Upload ==
    /\ pc = "idle"
    /\ \/ /\ \E g \in Uploads :
               /\ heap' = <<g>>
               /\ image' = Whole(g)
          /\ pc' = "decoded"
       \/ /\ heap' = <<>>
          /\ image' = NoneArray
          /\ pc' = "decoded"
       \/ /\ heap' = <<>>
          /\ image' = NoneArray
          /\ pc' = "imdecode_error"
    /\ UNCHANGED <<variant, percentage, center_region, region_coords,
                   region_visualization, color, skin_mask, hex_color, shown, loaded>>

\* if max(image.shape) > max_size: image = cv2.resize(image, None, fx=ratio, fy=ratio)
ResizeIfTooLarge ==
    /\ pc = "decoded"
    /\ \E r \in resize_if_too_large(heap, image) :
           IF r.raised
           THEN /\ pc' = IF image = NoneArray THEN "attribute_error" ELSE "resize_error"
                /\ UNCHANGED <<heap, image, loaded>>
           ELSE /\ pc' = "resized"
                /\ heap' = r.heap
                /\ image' = r.val
                /\ loaded' = Value(r.heap, r.val)
    /\ UNCHANGED <<variant, percentage, center_region, region_coords,
                   region_visualization, color, skin_mask, hex_color, shown>>

\* center_region[, region_coords] = get_central_region(image)
GetCentralRegion ==
    /\ pc = "resized"
    /\ LET r == get_central_region(image, percentage, variant)
       IN  /\ center_region' = r.center_region
           /\ region_coords' = r.region_coords
    /\ pc' = "cropped"
    /\ UNCHANGED <<variant, heap, image, percentage, region_visualization,
                   color, skin_mask, hex_color, shown, loaded>>

\* app: with col1: st.image(image, caption="uploaded photo")
ShowUploaded ==
    /\ pc = "cropped"
    /\ variant = "app"
    /\ shown' = shown \cup {"original"}
    /\ pc' = "ready"
    /\ UNCHANGED <<variant, heap, image, percentage, center_region, region_coords,
                   region_visualization, color, skin_mask, hex_color, loaded>>

\* app2: region_visualization = draw_analysis_region(image, region_coords)
DrawAnalysisRegion ==
    /\ pc = "cropped"
    /\ variant = "app2"
    /\ LET r == draw_analysis_region(heap, image, region_coords, default_color,
                                     default_thickness)
       IN  /\ heap' = r.heap
           /\ region_visualization' = r.val
    /\ pc' = "ready"
    /\ UNCHANGED <<variant, image, percentage, center_region, region_coords,
                   color, skin_mask, hex_color, shown, loaded>>

\* color[, skin_mask] = analyze_skin_color(center_region)
AnalyzeSkinColor ==
    /\ pc = "ready"
    /\ LET r == analyze_skin_color(heap, center_region, variant)
       IN  IF r.raised
           THEN /\ pc' = "cvt_error"
                /\ UNCHANGED <<heap, color, skin_mask>>
           ELSE /\ pc' = "analyzed"
                /\ heap' = r.heap
                /\ color' = r.color
                /\ skin_mask' = r.vis
    /\ UNCHANGED <<variant, image, percentage, center_region, region_coords,
                   region_visualization, hex_color, shown, loaded>>

\* the display of the columns and of the result
ShowResult ==
    /\ pc = "analyzed"
    /\ shown' = shown
                \cup (IF variant = "app2"
                      THEN {"original", "region"} \cup mask_elements(skin_mask)
                      ELSE {})
                \cup result_elements(color)
    /\ hex_color' = IF color # None THEN format_hex(color) ELSE None
    /\ pc' = "done"
    /\ UNCHANGED <<variant, heap, image, percentage, center_region, region_coords,
                   region_visualization, color, skin_mask, loaded>>

\* the next upload runs the script again from the top
Rerun ==
    /\ pc \in {"done", "imdecode_error", "attribute_error", "resize_error", "cvt_error"}
    /\ pc' = "idle"
    /\ heap' = <<>>
    /\ image' = NoneArray
    /\ center_region' = NoneArray
    /\ region_coords' = NoCoords
    /\ region_visualization' = NoneArray
    /\ color' = None
    /\ skin_mask' = NoneArray
    /\ hex_color' = None
    /\ shown' = {}
    /\ loaded' = EmptyGrid
    /\ UNCHANGED <<variant, percentage>>

Next ==
    \/ Upload
    \/ ResizeIfTooLarge
    \/ GetCentralRegion
    \/ ShowUploaded
    \/ DrawAnalysisRegion
    \/ AnalyzeSkinColor
    \/ ShowResult
    \/ Rerun

Spec == Init /\ [][Next]_vars

----------------------------------------------------------------------------
(* get_central_region on its own: any image, any keep percentage 0..100 *)

InitRegion ==
    /\ pc = "call_region"
    /\ variant \in Variants
    /\ \E h \in 1..RegionMaxDim, w \in 1..RegionMaxDim :
        /\ heap = <<Coordinates(h, w)>>
        /\ image = Whole(Coordinates(h, w))
    /\ percentage \in Percentages
    /\ center_region = NoneArray
    /\ region_coords = NoCoords
    /\ region_visualization = NoneArray
    /\ color = None
    /\ skin_mask = NoneArray
    /\ hex_color = None
    /\ shown = {}
    /\ loaded = EmptyGrid

CallGetCentralRegion ==
    /\ pc = "call_region"
    /\ LET r == get_central_region(image, percentage, variant)
       IN  /\ center_region' = r.center_region
           /\ region_coords' = r.region_coords
    /\ pc' = "returned_region"
    /\ UNCHANGED <<variant, heap, image, percentage, region_visualization,
                   color, skin_mask, hex_color, shown, loaded>>

NextRegion == CallGetCentralRegion

SpecRegion == InitRegion /\ [][NextRegion]_vars

----------------------------------------------------------------------------
(* analyze_skin_color on its own: any region, the empty ones included *)

\* the arrays over grid g that analyze_skin_color can be passed: the whole
\* grid and its slices without rows, without columns, and without both
Regions(g) ==
    {Whole(g),
     Slice(Whole(g), 0, 0, 0, g.w),
     Slice(Whole(g), 0, g.h, 0, 0),
     Slice(Whole(g), 0, 0, 0, 0)}

InitSkin ==
    /\ pc = "call_skin"
    /\ variant \in Variants
    /\ \E g \in Grids(Shapes(SkinMaxArea), SkinPalette) :
        /\ heap = <<g>>
        /\ center_region \in Regions(g)
    /\ image = NoneArray
    /\ percentage = default_percentage
    /\ region_coords = NoCoords
    /\ region_visualization = NoneArray
    /\ color = None
    /\ skin_mask = NoneArray
    /\ hex_color = None
    /\ shown = {}
    /\ loaded = EmptyGrid

CallAnalyzeSkinColor ==
    /\ pc = "call_skin"
    /\ LET r == analyze_skin_color(heap, center_region, variant)
       IN  IF r.raised
           THEN /\ pc' = "cvt_error"
                /\ UNCHANGED <<heap, color, skin_mask>>
           ELSE /\ pc' = "returned_skin"
                /\ heap' = r.heap
                /\ color' = r.color
                /\ skin_mask' = r.vis
    /\ UNCHANGED <<variant, image, percentage, center_region, region_coords,
                   region_visualization, hex_color, shown, loaded>>

NextSkin == CallAnalyzeSkinColor

SpecSkin == InitSkin /\ [][NextSkin]_vars

----------------------------------------------------------------------------
(* Properties *)

Returned == pc = "returned_region" /\ variant = "app2"

\* C1, as claimed: for every keep percentage 0..100 the returned bounds satisfy
\* 0 <= top < bottom <= H and 0 <= left < right <= W
C1_BoundsStrict ==
    Returned =>
        /\ 0 <= region_coords.top /\ region_coords.top < region_coords.bottom
        /\ region_coords.bottom <= image.h
        /\ 0 <= region_coords.left /\ region_coords.left < region_coords.right
        /\ region_coords.right <= image.w

\* C1, amended: the bounds always satisfy 0 <= top <= bottom <= H and
\* 0 <= left <= right <= W; top < bottom and left < right hold for every keep
\* percentage 1..100, and at 0 exactly on the axes of odd length
C1_Bounds ==
    Returned =>
        /\ 0 <= region_coords.top /\ region_coords.top <= region_coords.bottom
        /\ region_coords.bottom <= image.h
        /\ 0 <= region_coords.left /\ region_coords.left <= region_coords.right
        /\ region_coords.right <= image.w
        /\ percentage >= 1 =>
              /\ region_coords.top < region_coords.bottom
              /\ region_coords.left < region_coords.right
        /\ percentage = 0 =>
              /\ (region_coords.top < region_coords.bottom) <=> (image.h % 2 = 1)
              /\ (region_coords.left < region_coords.right) <=> (image.w % 2 = 1)

\* a call with a keep percentage of 1..99 that trimmed rows and columns
C1_Witness ==
    /\ Returned
    /\ percentage \in 1..99
    /\ region_coords.top > 0 /\ region_coords.left > 0
    /\ region_coords.top < region_coords.bottom
    /\ region_coords.left < region_coords.right

\* C2: with keep percentage 60 the bounds span H - 2*floor(H*20/100) rows and
\* W - 2*floor(W*20/100) columns, and the crop (of either variant) has exactly
\* that many rows and columns
C2_Keep60 ==
    (pc = "returned_region" /\ percentage = 60) =>
        LET rows == image.h - 2 * ((image.h * 20) \div 100)
            cols == image.w - 2 * ((image.w * 20) \div 100)
            crop_value == Value(heap, center_region)
        IN  /\ variant = "app2" =>
                /\ region_coords.bottom - region_coords.top = rows
                /\ region_coords.right - region_coords.left = cols
            /\ center_region.h = rows /\ center_region.w = cols
            /\ DOMAIN crop_value.px = 0..(rows - 1)
            /\ \A y \in 0..(rows - 1) : DOMAIN crop_value.px[y] = 0..(cols - 1)

\* a 60 percent crop that dropped rows and columns on both sides
C2_Witness ==
    /\ Returned
    /\ percentage = 60
    /\ region_coords.top >= 2 /\ region_coords.left >= 1
    /\ center_region.h = image.h - 2 * region_coords.top
    /\ center_region.w < image.w

\* C8: with keep percentage 100 the bounds are (0, H, 0, W) and the crop is
\* identical to the input image
C8_Keep100 ==
    (pc = "returned_region" /\ percentage = 100) =>
        /\ variant = "app2" =>
              region_coords = [top |-> 0, bottom |-> image.h,
                               left |-> 0, right |-> image.w]
        /\ Value(heap, center_region) = Value(heap, image)

\* a 100 percent call on an image of several rows and columns
C8_Witness ==
    /\ Returned
    /\ percentage = 100
    /\ image.h >= 2 /\ image.w >= 2
    /\ center_region.h = image.h /\ center_region.w = image.w

\* C9, as claimed: with keep percentage 0 the bounds collapse to a point,
\* top = bottom and left = right
C9_Collapse ==
    (Returned /\ percentage = 0) =>
        /\ region_coords.top = region_coords.bottom
        /\ region_coords.left = region_coords.right

\* C9, amended: with keep percentage 0, bottom - top = H mod 2 and
\* right - left = W mod 2: the bounds collapse on an axis of even length and
\* keep the middle row or column of an axis of odd length
C9_Keep0 ==
    (Returned /\ percentage = 0) =>
        /\ region_coords.bottom - region_coords.top = image.h % 2
        /\ region_coords.right - region_coords.left = image.w % 2
        /\ center_region.h = image.h % 2
        /\ center_region.w = image.w % 2

\* a 0 percent call that kept the middle row of an odd height and collapsed
\* an even width
C9_Witness ==
    /\ Returned
    /\ percentage = 0
    /\ image.h % 2 = 1 /\ image.h >= 3
    /\ image.w % 2 = 0
    /\ region_coords.bottom = region_coords.top + 1
    /\ region_coords.left = region_coords.right

\* a pixel whose hue is in [0,20], saturation in [20,255], value in [70,255]
InSkinRange(p) ==
    LET x == BGR2HSV(p)
    IN  /\ 0 <= x[1] /\ x[1] <= 20
        /\ 20 <= x[2] /\ x[2] <= 255
        /\ 70 <= x[3] /\ x[3] <= 255

\* the positions of the region passed to analyze_skin_color that are in range
Matched == {p \in Positions(center_region.h, center_region.w) :
               InSkinRange(At(heap, center_region, p[1], p[2]))}

RECURSIVE TotalOver(_, _)
TotalOver(S, c) ==
    IF S = {} THEN 0
    ELSE LET p == CHOOSE q \in S : TRUE
         IN  At(heap, center_region, p[1], p[2])[c] + TotalOver(S \ {p}, c)

C4_Average ==
    (pc = "returned_skin" /\ Matched # {}) =>
        LET n == Cardinality(Matched)
        IN  /\ color # None
            /\ Len(color) = 3
            /\ \A k \in 1..3 :
                  /\ color[k] * n <= TotalOver(Matched, 4 - k)
                  /\ TotalOver(Matched, 4 - k) < (color[k] + 1) * n
                  /\ color[k] \in 0..255
            /\ \A c \in SkinPalette :
                  (\A p \in Positions(center_region.h, center_region.w) :
                        At(heap, center_region, p[1], p[2]) = c)
                  => color = <<c[3], c[2], c[1]>>

\* a call on a region with two different in-range pixels whose mean is not an
\* integer and a pixel out of range that is left out of the mean
C4_Witness ==
    /\ pc = "returned_skin"
    /\ Cardinality(Matched) = 2
    /\ center_region.h * center_region.w = 3
    /\ TotalOver(Matched, 1) % 2 = 1
    /\ color = <<(TotalOver(Matched, 3)) \div 2, (TotalOver(Matched, 2)) \div 2,
                 (TotalOver(Matched, 1)) \div 2>>

\* C5: in app2 a returned visualization has the dimensions of the region, is
\* (0,0,0) at every pixel out of range and equals the input at every pixel in
\* range
C5_Visualization ==
    (pc = "returned_skin" /\ variant = "app2" /\ skin_mask # NoneArray) =>
        /\ skin_mask.h = center_region.h
        /\ skin_mask.w = center_region.w
        /\ DOMAIN heap[skin_mask.buf].px = 0..(center_region.h - 1)
        /\ \A y \in 0..(center_region.h - 1) :
              DOMAIN heap[skin_mask.buf].px[y] = 0..(center_region.w - 1)
        /\ \A p \in Positions(center_region.h, center_region.w) :
              At(heap, skin_mask, p[1], p[2]) =
                 IF p \in Matched THEN At(heap, center_region, p[1], p[2])
                 ELSE <<0, 0, 0>>

\* a visualization with a kept pixel and a blacked-out pixel
C5_Witness ==
    /\ pc = "returned_skin"
    /\ variant = "app2"
    /\ skin_mask # NoneArray
    /\ \E p, q \in Positions(center_region.h, center_region.w) :
          /\ p \in Matched
          /\ q \notin Matched
          /\ At(heap, skin_mask, p[1], p[2]) = At(heap, center_region, p[1], p[2])
          /\ At(heap, skin_mask, q[1], q[2]) = <<0, 0, 0>>
          /\ At(heap, center_region, q[1], q[2]) # <<0, 0, 0>>

\* C6: a run of main that reaches its end shows the swatch, the RGB text and
\* the hex code exactly when the estimator returned a color, the failure
\* message exactly when it returned None, never both; app2 shows the skin-mask
\* visualization only when it is defined; nothing of the result is shown
\* before the estimator has returned
C6_Display ==
    /\ pc = "done" =>
          /\ color # None =>
                /\ {"swatch", "rgb", "hex"} \subseteq shown
                /\ "error" \notin shown
                /\ hex_color # None
          /\ color = None =>
                /\ shown \cap {"swatch", "rgb", "hex"} = {}
                /\ "error" \in shown
                /\ hex_color = None
          /\ "skin_mask" \in shown => (variant = "app2" /\ skin_mask # NoneArray)
    /\ pc # "done" => shown \cap (ResultElements \cup {"error", "skin_mask"}) = {}

\* a finished run of app2 on an upload without skin: the failure message and
\* no swatch
C6_Witness ==
    /\ pc = "done"
    /\ variant = "app2"
    /\ color = None
    /\ shown = {"original", "region", "error"}

\* C7: from the end of resizing to the end of the run the pixels of image are
\* the ones it was loaded with, although center_region is a view onto them
C7_ImageUnchanged ==
    pc \in {"resized", "cropped", "ready", "analyzed", "done"} =>
        /\ Value(heap, image) = loaded
        /\ heap[image.buf].px = loaded.px

\* a finished run of app2 whose crop is a proper part of the image's buffer,
\* whose overlay differs from the image and whose visualization blacked out a
\* pixel of the crop
C7_Witness ==
    /\ pc = "done"
    /\ variant = "app2"
    /\ center_region.buf = image.buf
    /\ center_region.h < image.h
    /\ region_visualization.buf # image.buf
    /\ Value(heap, region_visualization) # loaded
    /\ skin_mask # NoneArray
    /\ skin_mask.buf # image.buf
    /\ \E p \in Positions(center_region.h, center_region.w) :
          /\ At(heap, skin_mask, p[1], p[2]) = <<0, 0, 0>>
          /\ At(heap, center_region, p[1], p[2]) # <<0, 0, 0>>

\* C10, as claimed: past the resizing step an upload whose largest dimension
\* exceeds max_size has been scaled by max_size/largest on both axes, and the
\* image handed on has largest dimension at most max_size and positive width
\* and height; a smaller upload is handed on unchanged
C10_Downscaled ==
    (pc \notin {"idle", "decoded"} /\ heap # <<>>) =>
        LET raw == heap[1]
            largest == Max2(raw.h, raw.w)
        IN  IF largest > max_size
            THEN /\ pc # "resize_error"
                 /\ image.h = scaled_side(raw.h, max_size, largest)
                 /\ image.w = scaled_side(raw.w, max_size, largest)
                 /\ Max2(image.h, image.w) <= max_size
                 /\ image.h >= 1 /\ image.w >= 1
            ELSE /\ pc # "resize_error"
                 /\ image = Whole(raw)
                 /\ loaded = raw

====
